---- MODULE Spec2Model ----
(***************************************************************************)
(* A model of the two JSON-RPC servers of src/mcp:                         *)
(*   server.ts  the SSE server: clients registry, globalEventSeq,          *)
(*              broadcast, handleRpc, GET /mcp/sse, POST /mcp/command,      *)
(*              the tick timer;                                            *)
(*   tavily.ts  the stdio server: TOOLS, handleRpc, the stdin 'data'       *)
(*              handler with its line buffer, the readiness line.          *)
(* JSON values are tagged records, so that values of different JavaScript  *)
(* types can be compared.                                                  *)
(***************************************************************************)
EXTENDS Integers, Sequences, FiniteSets, TLC

(***************************************************************************)
(* JavaScript values                                                       *)
(***************************************************************************)
Undef == [t |-> "undefined"]
Null == [t |-> "null"]
NaN == [t |-> "number", nan |-> TRUE]
Num(n) == [t |-> "number", n |-> n]
Str(s) == [t |-> "string", s |-> s]
Bool(b) == [t |-> "boolean", b |-> b]
Arr(a) == [t |-> "array", a |-> a]
\* an object literal: o is a function from its own keys to their values
Obj(o) == [t |-> "object", o |-> o]
EmptyObj == Obj([k \in {} |-> Undef])

\* typeof v
TypeOf(v) ==
  CASE v.t = "null" -> "object"
    [] v.t = "array" -> "object"
    [] OTHER -> v.t

\* ToBoolean(v): what `!v`, `v || d` and `if (v)` look at
Truthy(v) ==
  CASE v.t = "undefined" -> FALSE
    [] v.t = "null" -> FALSE
    [] v.t = "boolean" -> v.b
    [] v.t = "number" -> IF "nan" \in DOMAIN v THEN FALSE ELSE v.n # 0
    [] v.t = "string" -> v.s # ""
    [] OTHER -> TRUE

\* a ?? d
Coalesce(a, d) == IF a.t \in {"undefined", "null"} THEN d ELSE a

\* a || d
OrElse(a, d) == IF Truthy(a) THEN a ELSE d

Digit(d) ==
  CASE d = 0 -> "0" [] d = 1 -> "1" [] d = 2 -> "2" [] d = 3 -> "3" [] d = 4 -> "4"
    [] d = 5 -> "5" [] d = 6 -> "6" [] d = 7 -> "7" [] d = 8 -> "8" [] d = 9 -> "9"

RECURSIVE NatText(_)
NatText(n) == IF n < 10 THEN Digit(n) ELSE NatText(n \div 10) \o Digit(n % 10)

RECURSIVE JoinText(_)
RECURSIVE JsString(_)
\* String(v), as a template literal `${v}` and a property key compute it
JsString(v) ==
  CASE v.t = "undefined" -> "undefined"
    [] v.t = "null" -> "null"
    [] v.t = "boolean" -> IF v.b THEN "true" ELSE "false"
    [] v.t = "number" ->
         IF "nan" \in DOMAIN v THEN "NaN"
         ELSE IF v.n < 0 THEN "-" \o NatText(0 - v.n) ELSE NatText(v.n)
    [] v.t = "string" -> v.s
    [] v.t = "array" -> JoinText(v.a)
    [] OTHER -> "[object Object]"
\* Array.prototype.join(","): null and undefined elements give the empty text
JoinText(a) ==
  IF a = <<>> THEN ""
  ELSE LET h == IF Head(a).t \in {"undefined", "null"} THEN "" ELSE JsString(Head(a))
       IN  IF Len(a) = 1 THEN h ELSE h \o "," \o JoinText(Tail(a))

\* v.k for a key k none of the built-in prototypes defines. Reading a property
\* of null or undefined throws, which the callers test with Throws first.
Throws(v) == v.t \in {"undefined", "null"}
GetProp(v, k) == IF v.t = "object" /\ k \in DOMAIN v.o THEN v.o[k] ELSE Undef

\* the keys every plain object inherits from Object.prototype (those the model
\* draws names from)
ObjectPrototypeKeys == {"constructor", "toString", "__proto__"}

\* Number(v)
ToNumber(v) ==
  CASE v.t = "number" -> v
    [] v.t = "null" -> Num(0)
    [] v.t = "boolean" -> IF v.b THEN Num(1) ELSE Num(0)
    [] v.t = "string" ->
         IF v.s = "" THEN Num(0)
         ELSE IF \E d \in 0..9 : v.s = Digit(d)
              THEN Num(CHOOSE d \in 0..9 : v.s = Digit(d))
              ELSE NaN
    [] v.t = "array" -> IF v.a = <<>> THEN Num(0) ELSE NaN
    [] OTHER -> NaN

\* a + b on numbers
JsAdd(a, b) == IF "nan" \in DOMAIN a \/ "nan" \in DOMAIN b THEN NaN ELSE Num(a.n + b.n)

(***************************************************************************)
(* JSON-RPC responses                                                      *)
(***************************************************************************)
Success(id, result) == [jsonrpc |-> "2.0", id |-> id, result |-> result]
Failure(id, code, message) ==
  [jsonrpc |-> "2.0", id |-> id, error |-> [code |-> code, message |-> message]]
\* the response the catch block builds from a thrown Error: err.message, and
\* err.stack as data
Caught(id, message) ==
  [jsonrpc |-> "2.0", id |-> id,
   error |-> [code |-> -32000, message |-> message, data |-> Str("<stack>")]]
IsFailure(r) == "error" \in DOMAIN r
IsSuccess(r) == "result" \in DOMAIN r

\* the settlement of the promise an async function returns
Fulfilled(resp, invoked) == [settle |-> "fulfilled", resp |-> resp, invoked |-> invoked]
Rejected == [settle |-> "rejected", invoked |-> "none"]

NoTool == "none"

(***************************************************************************)
(* server.ts: the tool registry `tools` and handleRpc                      *)
(***************************************************************************)
\* Object.keys(tools), in registration order
toolsKeys == <<"echo", "now", "sum">>

\* the members of a sequence
Range(f) == {f[i] : i \in DOMAIN f}

\* registry[name]: the own entry under the key String(name), else what
\* Object.prototype supplies under that key (a truthy value without `run`), else
\* undefined
Lookup(keys, name) ==
  LET k == JsString(name)
  IN  IF k \in Range(keys) THEN [kind |-> "tool", name |-> k]
      ELSE IF k \in ObjectPrototypeKeys THEN [kind |-> "inherited"]
      ELSE [kind |-> "undefined"]

\* the value `new Date().toISOString()` reads from the clock
IsoNow == Str("<iso-time>")

RECURSIVE SumReduce(_, _)
\* input.reduce((acc, v) => acc + Number(v || 0), 0)
SumReduce(a, acc) ==
  IF a = <<>> THEN acc
  ELSE SumReduce(Tail(a), JsAdd(acc, ToNumber(OrElse(Head(a), Num(0)))))

\* tools[k].run(input): the value it resolves to, or the Error it throws
toolsRun(k, input) ==
  CASE k = "echo" -> [ok |-> TRUE, value |-> Obj([echo |-> input])]
    [] k = "now" -> [ok |-> TRUE, value |-> Obj([now |-> IsoNow])]
    [] k = "sum" ->
         IF input.t # "array"
         THEN [ok |-> FALSE, message |-> "Input must be array of numbers"]
         ELSE [ok |-> TRUE, value |-> Obj([total |-> SumReduce(input.a, Num(0))])]

\* Object.values(tools).map(t => ({ name, description }))
toolsList ==
  Arr([i \in DOMAIN toolsKeys |->
        Obj([name |-> Str(toolsKeys[i]), description |-> Str("<description>")])])

\* reqObj.id || null
ResponseIdOr(reqObj) == OrElse(GetProp(reqObj, "id"), Null)

\* reqObj.id ?? null
ResponseId(reqObj) == Coalesce(GetProp(reqObj, "id"), Null)

\* the `!name || !tools[name]` guard of callTool
toolMissing(name) == ~Truthy(name) \/ Lookup(toolsKeys, name).kind = "undefined"

\* case 'callTool' of server.ts, inside the try block
callTool_server(reqObj) ==
  LET p == OrElse(GetProp(reqObj, "params"), EmptyObj)
      name == GetProp(p, "name")
      input == GetProp(p, "input")
      id == ResponseId(reqObj)
      found == Lookup(toolsKeys, name)
  IN  IF toolMissing(name)
      THEN Fulfilled(Caught(id, "Tool not found: " \o JsString(name)), NoTool)
      ELSE IF found.kind = "inherited"
      THEN Fulfilled(Caught(id, "tools[name].run is not a function"), NoTool)
      ELSE LET r == toolsRun(found.name, input)
           IN  IF r.ok THEN Fulfilled(Success(id, r.value), found.name)
               ELSE Fulfilled(Caught(id, r.message), found.name)

\* async function handleRpc(reqObj) of server.ts: how its promise settles
handleRpc_server(reqObj) ==
  IF Throws(reqObj) THEN Rejected
  ELSE LET id == ResponseId(reqObj)
           method == GetProp(reqObj, "method")
       IN  IF GetProp(reqObj, "jsonrpc") # Str("2.0")
           THEN Fulfilled(Failure(id, -32600, "Invalid JSON-RPC version"), NoTool)
           ELSE CASE method = Str("ping") ->
                       Fulfilled(Success(id, Obj([pong |-> Bool(TRUE)])), NoTool)
                  [] method = Str("listTools") -> Fulfilled(Success(id, toolsList), NoTool)
                  [] method = Str("callTool") -> callTool_server(reqObj)
                  [] OTHER ->
                       Fulfilled(Failure(id, -32601,
                                         "Method not found: " \o JsString(method)), NoTool)

(***************************************************************************)
(* tavily.ts: the tool registry TOOLS and handleRpc                        *)
(***************************************************************************)
\* Object.keys(TOOLS)
TOOLSKeys == <<"tavily_search">>

\* what the outside world does to one run of tavily_search: the API key is
\* missing, the API answers, or the request fails
IoOutcomes == {"nokey", "ok", "apierror"}

\* TOOLS.tavily_search.run(input) under the outcome io
TOOLSRun(input, io) ==
  CASE io = "nokey" -> [ok |-> FALSE, message |-> "Tavily API key missing"]
    [] io = "apierror" -> [ok |-> FALSE, message |-> "Tavily API error"]
    [] io = "ok" ->
         [ok |-> TRUE, value |-> Obj([query |-> Str("<query>"), results |-> Arr(<<>>)])]

\* Object.values(TOOLS).map(t => ({ name, description, inputSchema }))
TOOLSList ==
  Arr([i \in DOMAIN TOOLSKeys |->
        Obj([name |-> Str(TOOLSKeys[i]), description |-> Str("<description>"),
             inputSchema |-> Obj([type |-> Str("object")])])])

\* the `typeof name !== 'string' || !(name in TOOLS)` guard of callTool
TOOLSMissing(name) ==
  TypeOf(name) # "string" \/ Lookup(TOOLSKeys, name).kind = "undefined"

\* case 'callTool' of tavily.ts, inside the try block
callTool_tavily(req, io) ==
  LET p == OrElse(GetProp(req, "params"), EmptyObj)
      name == GetProp(p, "name")
      input == GetProp(p, "input")
      id == ResponseId(req)
      found == Lookup(TOOLSKeys, name)
  IN  IF TOOLSMissing(name)
      THEN Fulfilled(Caught(id, "Tool not found: " \o JsString(name)), NoTool)
      ELSE IF found.kind = "inherited"
      THEN Fulfilled(Caught(id, "tool.run is not a function"), NoTool)
      ELSE LET r == TOOLSRun(OrElse(input, EmptyObj), io)
           IN  IF r.ok THEN Fulfilled(Success(id, r.value), found.name)
               ELSE Fulfilled(Caught(id, r.message), found.name)

\* async function handleRpc(req) of tavily.ts: how its promise settles
handleRpc_tavily(req, io) ==
  IF Throws(req) THEN Rejected
  ELSE LET id == ResponseId(req)
           method == GetProp(req, "method")
       IN  IF GetProp(req, "jsonrpc") # Str("2.0")
           THEN Fulfilled(Failure(id, -32600, "Invalid JSON-RPC version"), NoTool)
           ELSE CASE method = Str("ping") ->
                       Fulfilled(Success(id, Obj([pong |-> Bool(TRUE)])), NoTool)
                  [] method = Str("listTools") -> Fulfilled(Success(id, TOOLSList), NoTool)
                  [] method = Str("callTool") -> callTool_tavily(req, io)
                  [] OTHER ->
                       Fulfilled(Failure(id, -32601,
                                         "Method not found: " \o JsString(method)), NoTool)

\* whether handleRpc(req) of tavily.ts reaches `await tool.run(...)`, so that
\* its promise settles only when the outside world answers
AwaitsTool(req) ==
  /\ ~Throws(req)
  /\ GetProp(req, "jsonrpc") = Str("2.0")
  /\ GetProp(req, "method") = Str("callTool")
  /\ LET name == GetProp(OrElse(GetProp(req, "params"), EmptyObj), "name")
     IN  ~TOOLSMissing(name) /\ Lookup(TOOLSKeys, name).kind = "tool"
(***************************************************************************)
(* tavily.ts: the stdin framing                                            *)
(* Text is a sequence of tokens. "\n" is the newline and " " a blank; "P1"  *)
(* and "P2" are the two halves of the text of a ping request, "T" is the   *)
(* text of a callTool request for tavily_search, "N" is the text `null`,   *)
(* and "X" is text that is no JSON.                                        *)
(***************************************************************************)
NL == "\n"
SP == " "
Tokens == {NL, SP, "P1", "P2", "T", "N", "X"}

PingRequest == Obj([jsonrpc |-> Str("2.0"), id |-> Num(1), method |-> Str("ping")])
SearchRequest ==
  Obj([jsonrpc |-> Str("2.0"), id |-> Num(2), method |-> Str("callTool"),
       params |-> Obj([name |-> Str("tavily_search"),
                       input |-> Obj([query |-> Str("<query>")])])])

\* JSON.parse(line): the value, or the SyntaxError it throws
JsonParse(line) ==
  CASE line = <<"P1", "P2">> -> [ok |-> TRUE, value |-> PingRequest]
    [] line = <<"T">> -> [ok |-> TRUE, value |-> SearchRequest]
    [] line = <<"N">> -> [ok |-> TRUE, value |-> Null]
    [] OTHER -> [ok |-> FALSE, message |-> "Unexpected token"]

\* buffer.indexOf('\n'), 1-based; 0 when there is none
IndexOf(buf, c) ==
  IF \E i \in DOMAIN buf : buf[i] = c
  THEN CHOOSE i \in DOMAIN buf : buf[i] = c /\ \A j \in 1..(i - 1) : buf[j] # c
  ELSE 0

RECURSIVE TrimStart(_)
TrimStart(s) == IF s # <<>> /\ Head(s) = SP THEN TrimStart(Tail(s)) ELSE s
RECURSIVE TrimEnd(_)
TrimEnd(s) ==
  IF s # <<>> /\ s[Len(s)] = SP THEN TrimEnd(SubSeq(s, 1, Len(s) - 1)) ELSE s
\* String.prototype.trim
Trim(s) == TrimEnd(TrimStart(s))

RECURSIVE SplitLinesDropPartial(_, _)
\* a loop that forgets the partial line at the end of the buffer
SplitLinesDropPartial(buf, acc) ==
  LET idx == IndexOf(buf, NL)
  IN  IF idx = 0 THEN [lines |-> acc, rest |-> <<>>]
      ELSE SplitLinesDropPartial(SubSeq(buf, idx + 1, Len(buf)),
                                 Append(acc, Trim(SubSeq(buf, 1, idx - 1))))

RECURSIVE SplitLinesFlushPartial(_, _)
\* a loop that takes the end of the buffer for the end of a line
SplitLinesFlushPartial(buf, acc) ==
  LET idx == IndexOf(buf, NL)
  IN  IF idx = 0
      THEN [lines |-> IF buf = <<>> THEN acc ELSE Append(acc, Trim(buf)), rest |-> <<>>]
      ELSE SplitLinesFlushPartial(SubSeq(buf, idx + 1, Len(buf)),
                                  Append(acc, Trim(SubSeq(buf, 1, idx - 1))))

RECURSIVE SplitLines(_, _)
\* the while loop of the 'data' handler on the buffer buf: the trimmed candidate
\* lines it cuts off, in order (acc), and what it leaves in the buffer
SplitLines(buf, acc) ==
  LET idx == IndexOf(buf, NL)
  IN  IF idx = 0 THEN [lines |-> acc, rest |-> buf]
      ELSE SplitLines(SubSeq(buf, idx + 1, Len(buf)),
                      Append(acc, Trim(SubSeq(buf, 1, idx - 1))))

\* the response of the catch block of the 'data' handler
ParseError(message) ==
  [jsonrpc |-> "2.0", id |-> Null,
   error |-> [code |-> -32700, message |-> "Parse error", data |-> Str(message)]]

\* the readiness line written when the script is loaded
ReadyLine ==
  Success(Null, Obj([ready |-> Bool(TRUE),
                     tools |-> Arr([i \in DOMAIN TOOLSKeys |-> Str(TOOLSKeys[i])])]))
(***************************************************************************)
(* tavily.ts: the stdio process                                            *)
(***************************************************************************)
\* the longest chunk one 'data' event delivers, and the most tokens a run feeds
MaxChunk == 3
MaxInput == 4

VARIABLES
  proc,      \* "load": the script has not run yet; "running"; "exited"
  apiKey,    \* whether config.tavily.apiKey is set
  buffer,    \* `buffer`: the text after the last newline seen so far
  stdout,    \* the lines written to process.stdout, in order
  lines,     \* one entry per non-empty line the handler has cut off, in order:
             \* its text, what became of it, and the place of its answer in stdout
  fed,       \* the number of tokens fed so far
  received,  \* the text of the chunks delivered so far, in order
  candidates \* the candidate lines the handler has cut off so far, trimmed, the
             \* empty ones included, in order

stdioVars == <<proc, apiKey, buffer, stdout, lines, fed, received, candidates>>

StdioInit ==
  /\ proc = "load"
  /\ apiKey \in BOOLEAN
  /\ buffer = <<>>
  /\ stdout = <<>>
  /\ lines = <<>>
  /\ fed = 0
  /\ received = <<>>
  /\ candidates = <<>>

\* a script that registers the handler and announces nothing
StartupSilent ==
  /\ proc = "load"
  /\ proc' = "running"
  /\ UNCHANGED <<apiKey, buffer, stdout, lines, fed, received, candidates>>

\* the top level of the script: the handler is registered (l.126) and the
\* readiness line written (l.147) before any 'data' event is delivered
Startup ==
  /\ proc = "load"
  /\ proc' = "running"
  /\ stdout' = Append(stdout, ReadyLine)
  /\ UNCHANGED <<apiKey, buffer, lines, fed, received, candidates>>

\* what the loop body does with one non-empty line:
\*   "parse_error"  JSON.parse throws: the catch block writes at once
\*   "rejected"     handleRpc(req) rejects: .then never runs, nothing handles it
\*   "pending"      handleRpc(req) awaits the network
\*   "late"         handleRpc(req) awaits a run that has failed already
\*   "soon"         handleRpc(req) returns without awaiting
LineClass(line, key) ==
  LET parsed == JsonParse(line)
  IN  IF ~parsed.ok THEN "parse_error"
      ELSE IF Throws(parsed.value) THEN "rejected"
      ELSE IF AwaitsTool(parsed.value) THEN (IF key THEN "pending" ELSE "late")
      ELSE "soon"

\* the line written for a line of class parse_error, soon or late
LineResponse(line) ==
  LET parsed == JsonParse(line)
  IN  IF ~parsed.ok THEN ParseError(parsed.message)
      ELSE handleRpc_tavily(parsed.value, "nokey").resp

\* the ordinals i of 1..n with cls[i] = c, in order
Ordinals(cls, c) ==
  SelectSeq([i \in DOMAIN cls |-> i], LAMBDA i : cls[i] = c)

\* the order in which one 'data' event writes: the catch block during the loop,
\* then the .then callbacks of the promises already resolved, then those of the
\* promises that resolve one await later
WriteOrder(cls) ==
  Ordinals(cls, "parse_error") \o Ordinals(cls, "soon") \o Ordinals(cls, "late")

\* the place of x in the sequence s, 0 when it is not there
Place(s, x) == IF \E k \in DOMAIN s : s[k] = x THEN CHOOSE k \in DOMAIN s : s[k] = x ELSE 0

\* the lines of one chunk that the loop handles: the non-empty ones
Handled(cut) == SelectSeq(cut, LAMBDA l : l # <<>>)

\* process.stdin.on('data', chunk => ...), with the promise callbacks that run
\* before the next event. An unhandled rejection ends the process or is only
\* reported, depending on the Node version and flags.
OnData(chunk) ==
  /\ proc = "running"
  /\ fed + Len(chunk) <= MaxInput
  /\ LET sp == SplitLines(buffer \o chunk, <<>>)
         todo == Handled(sp.lines)
         cls == [i \in DOMAIN todo |-> LineClass(todo[i], apiKey)]
         order == WriteOrder(cls)
         entry(i) ==
           [text |-> todo[i],
            state |-> CASE cls[i] = "parse_error" -> "parse_error"
                        [] cls[i] \in {"soon", "late"} -> "answered"
                        [] OTHER -> cls[i],
            out |-> IF Place(order, i) = 0 THEN 0 ELSE Len(stdout) + Place(order, i)]
     IN  /\ buffer' = sp.rest
         /\ candidates' = candidates \o sp.lines
         /\ stdout' = stdout \o [k \in DOMAIN order |-> LineResponse(todo[order[k]])]
         /\ lines' = lines \o [i \in DOMAIN todo |-> entry(i)]
         /\ IF \E i \in DOMAIN cls : cls[i] = "rejected"
            THEN proc' \in {"running", "exited"}
            ELSE proc' = proc
  /\ fed' = fed + Len(chunk)
  /\ received' = received \o chunk
  /\ UNCHANGED apiKey

\* the network answers the run of a pending line: handleRpc resumes and the
\* .then callback writes its response
Complete(k, io) ==
  /\ proc = "running"
  /\ k \in DOMAIN lines
  /\ lines[k].state = "pending"
  /\ io \in {"ok", "apierror"}
  /\ stdout' = Append(stdout, handleRpc_tavily(JsonParse(lines[k].text).value, io).resp)
  /\ lines' = [lines EXCEPT ![k].state = "answered", ![k].out = Len(stdout) + 1]
  /\ UNCHANGED <<proc, apiKey, buffer, fed, received, candidates>>

Chunks == UNION {[1..n -> Tokens] : n \in 1..MaxChunk}
(***************************************************************************)
(* server.ts: the SSE server                                               *)
(***************************************************************************)
\* the connections a run accepts, the POST requests it receives, the longest
\* batch, and the last sequence number a run uses
MaxConns == 2
MaxPosts == 2
MaxBatch == 2
MaxSeq == 3

ConnIds == 1..MaxConns
PostIds == 1..MaxPosts

RECURSIVE JsonStringify(_)
\* JSON.stringify(v), as the value its text denotes: NaN becomes null, an
\* undefined array element becomes null, an undefined object field is left out
JsonStringify(v) ==
  CASE v.t = "number" -> IF "nan" \in DOMAIN v THEN Null ELSE v
    [] v.t = "array" ->
         Arr([i \in DOMAIN v.a |->
               IF v.a[i].t = "undefined" THEN Null ELSE JsonStringify(v.a[i])])
    [] v.t = "object" ->
         Obj([k \in {j \in DOMAIN v.o : v.o[j].t # "undefined"} |-> JsonStringify(v.o[k])])
    [] OTHER -> v

\* a response object as a JavaScript value
AsValue(r) ==
  IF IsSuccess(r)
  THEN Obj([jsonrpc |-> Str(r.jsonrpc), id |-> r.id, result |-> r.result])
  ELSE Obj([jsonrpc |-> Str(r.jsonrpc), id |-> r.id,
            error |-> Obj([k \in DOMAIN r.error |->
                            CASE k = "code" -> Num(r.error.code)
                              [] k = "message" -> Str(r.error.message)
                              [] OTHER -> r.error[k]])])

VARIABLES
  up,              \* the server process is running
  clients,         \* `clients`: client id -> its ClientConn (lastEventId)
  globalEventSeq,  \* `globalEventSeq`
  sock,            \* per connection: "none" (not yet accepted), "open", "closed"
  wire,            \* per connection: the frames written to its response, in order
  posts,           \* per POST /mcp/command request: where its handler stands
  settled,         \* the handler that was over last: its body, its responses, the
                   \* sequence numbers of its rpc events, and its reply if it sent one
  emitted          \* the events emitted so far, in order, each with its recipients

sseVars == <<up, clients, globalEventSeq, sock, wire, posts, settled, emitted>>

IdlePost == [pc |-> "idle"]
\* a handler that is over: the number of responses it computed
DonePost(n) == [pc |-> "done", n |-> n]

SseInit ==
  /\ up = TRUE
  /\ clients = [c \in {} |-> [lastEventId |-> Num(0)]]
  /\ globalEventSeq = 1
  /\ sock = [c \in ConnIds |-> "none"]
  /\ wire = [c \in ConnIds |-> <<>>]
  /\ posts = [h \in PostIds |-> IdlePost]
  /\ settled = [pc |-> "none"]
  /\ emitted = <<>>

\* const requests = Array.isArray(body) ? body : [body]
Requests(body) == IF body.t = "array" THEN body.a ELSE <<body>>

RECURSIVE SumOver(_, _)
SumOver(f, S) ==
  IF S = {} THEN 0 ELSE LET x == CHOOSE y \in S : TRUE IN f[x] + SumOver(f, S \ {x})

\* the entries the suspended POST handlers have still to broadcast
Outstanding ==
  SumOver([h \in PostIds |->
            IF posts[h].pc = "awaiting"
            THEN Len(Requests(posts[h].body)) - Len(posts[h].responses) ELSE 0],
          PostIds)

\* the sequence numbers a run may still hand out to new events: the run stops
\* taking new events when the numbers up to MaxSeq are spoken for
Room == MaxSeq + 1 - globalEventSeq - Outstanding

\* the three writes of one SSE frame
Frame(seq, event, payload) == [id |-> seq, event |-> event, data |-> payload]

\* broadcast with the increment inside the loop over the clients
broadcastPerClient(event, data) ==
  LET payload == JsonStringify(data)
  IN  /\ wire' = [c \in ConnIds |->
                   IF c \in DOMAIN clients
                   THEN Append(wire[c], Frame(globalEventSeq, event, payload))
                   ELSE wire[c]]
      /\ clients' = [c \in DOMAIN clients |->
                      [clients[c] EXCEPT !.lastEventId = Num(globalEventSeq)]]
      /\ globalEventSeq' = globalEventSeq + Cardinality(DOMAIN clients)
      /\ emitted' = Append(emitted, [id |-> globalEventSeq, event |-> event,
                                     data |-> payload, to |-> DOMAIN clients])

\* broadcast with the increment before the loop over the clients
broadcastIncrementFirst(event, data) ==
  LET payload == JsonStringify(data)
      seq == globalEventSeq + 1
  IN  /\ wire' = [c \in ConnIds |->
                   IF c \in DOMAIN clients
                   THEN Append(wire[c], Frame(seq, event, payload))
                   ELSE wire[c]]
      /\ clients' = [c \in DOMAIN clients |-> [clients[c] EXCEPT !.lastEventId = Num(seq)]]
      /\ globalEventSeq' = seq
      /\ emitted' = Append(emitted, [id |-> seq, event |-> event,
                                     data |-> payload, to |-> DOMAIN clients])

\* function broadcast(event, data): the registry, the wires and the sequence
\* after the call
broadcast(event, data) ==
  LET payload == JsonStringify(data)
  IN  /\ wire' = [c \in ConnIds |->
                   IF c \in DOMAIN clients
                   THEN Append(wire[c], Frame(globalEventSeq, event, payload))
                   ELSE wire[c]]
      /\ clients' = [c \in DOMAIN clients |->
                      [clients[c] EXCEPT !.lastEventId = Num(globalEventSeq)]]
      /\ globalEventSeq' = globalEventSeq + 1
      /\ emitted' = Append(emitted, [id |-> globalEventSeq, event |-> event,
                                     data |-> payload, to |-> DOMAIN clients])

\* the Last-Event-ID headers a client may send
Markers == {Undef, Str("5"), Str("x")}

\* a handler that announces the new connection with a broadcast to the registry
AcceptAnnounce(c, marker) ==
  /\ up
  /\ sock[c] = "none"
  /\ \A d \in ConnIds : d < c => sock[d] # "none"
  /\ Room >= 1
  /\ LET payload == JsonStringify(Obj([clientId |-> Num(c), serverTime |-> IsoNow]))
         registered == DOMAIN clients \cup {c}
     IN  /\ wire' = [d \in ConnIds |->
                      IF d \in registered
                      THEN Append(wire[d], Frame(globalEventSeq, "welcome", payload))
                      ELSE wire[d]]
         /\ clients' = [d \in registered |-> [lastEventId |-> Num(globalEventSeq)]]
         /\ emitted' = Append(emitted, [id |-> globalEventSeq, event |-> "welcome",
                                        data |-> payload, to |-> registered])
  /\ globalEventSeq' = globalEventSeq + 1
  /\ sock' = [sock EXCEPT ![c] = "open"]
  /\ UNCHANGED <<up, posts, settled>>

\* a handler that first replays the events emitted after the one the client
\* says it saw last
AcceptReplay(c, marker) ==
  /\ up
  /\ sock[c] = "none"
  /\ \A d \in ConnIds : d < c => sock[d] # "none"
  /\ Room >= 1
  /\ LET lastEventId == IF Truthy(marker) THEN ToNumber(marker) ELSE Num(0)
         missed == SelectSeq(emitted, LAMBDA e : "n" \in DOMAIN lastEventId
                                                   /\ e.id > lastEventId.n)
         replay == [k \in DOMAIN missed |->
                      Frame(missed[k].id, missed[k].event, missed[k].data)]
         payload == JsonStringify(Obj([clientId |-> Num(c), serverTime |-> IsoNow]))
     IN  /\ wire' = [wire EXCEPT ![c] = Append(@ \o replay,
                                                Frame(globalEventSeq, "welcome", payload))]
         /\ clients' = [d \in DOMAIN clients \cup {c} |->
                          IF d = c THEN [lastEventId |-> Num(globalEventSeq)]
                          ELSE clients[d]]
         /\ emitted' = Append(emitted, [id |-> globalEventSeq, event |-> "welcome",
                                        data |-> payload, to |-> {c}])
  /\ globalEventSeq' = globalEventSeq + 1
  /\ sock' = [sock EXCEPT ![c] = "open"]
  /\ UNCHANGED <<up, posts, settled>>

\* app.get('/mcp/sse'): register the connection and write its welcome event.
\* The client id is a fresh UUID: the next unused one.
Accept(c, marker) ==
  /\ up
  /\ sock[c] = "none"
  /\ \A d \in ConnIds : d < c => sock[d] # "none"
  /\ Room >= 1
  /\ LET lastEventId == IF Truthy(marker) THEN ToNumber(marker) ELSE Num(0)
         conn == [lastEventId |-> lastEventId]
         welcomed == [conn EXCEPT !.lastEventId = Num(globalEventSeq)]
         payload == JsonStringify(Obj([clientId |-> Num(c), serverTime |-> IsoNow]))
     IN  /\ wire' = [wire EXCEPT ![c] = Append(@, Frame(globalEventSeq, "welcome", payload))]
         /\ clients' = [d \in DOMAIN clients \cup {c} |->
                          IF d = c THEN welcomed ELSE clients[d]]
         /\ emitted' = Append(emitted, [id |-> globalEventSeq, event |-> "welcome",
                                        data |-> payload, to |-> {c}])
  /\ globalEventSeq' = globalEventSeq + 1
  /\ sock' = [sock EXCEPT ![c] = "open"]
  /\ UNCHANGED <<up, posts, settled>>

\* a close handler that only logs
OnCloseKeep(c) ==
  /\ up
  /\ sock[c] = "open"
  /\ sock' = [sock EXCEPT ![c] = "closed"]
  /\ UNCHANGED <<up, clients, globalEventSeq, wire, posts, settled, emitted>>

\* req.on('close'): the connection is removed from the registry
OnClose(c) ==
  /\ up
  /\ sock[c] = "open"
  /\ clients' = [d \in DOMAIN clients \ {c} |-> clients[d]]
  /\ sock' = [sock EXCEPT ![c] = "closed"]
  /\ UNCHANGED <<up, globalEventSeq, wire, posts, settled, emitted>>

\* a timer whose callback is held back while a POST handler is suspended
TickWhenIdle ==
  /\ up
  /\ Room >= 1
  /\ \A h \in PostIds : posts[h].pc # "awaiting"
  /\ broadcast("tick", Obj([ts |-> Str("<now>")]))
  /\ UNCHANGED <<up, sock, posts, settled>>

\* the setInterval callback
Tick ==
  /\ up
  /\ Room >= 1
  /\ broadcast("tick", Obj([ts |-> Str("<now>")]))
  /\ UNCHANGED <<up, sock, posts, settled>>
\* the requests a POST body is made of
PingA == Obj([jsonrpc |-> Str("2.0"), id |-> Str("a"), method |-> Str("ping")])
UnknownB == Obj([jsonrpc |-> Str("2.0"), method |-> Str("unknown")])
PostEntries == {PingA, UnknownB, Null}

\* the bodies express.json() hands to the handler: an object, or an array
Bodies ==
  (PostEntries \ {Null}) \cup {Arr(a) : a \in UNION {[1..n -> PostEntries] : n \in 0..MaxBatch}}

NoReply == [t |-> "no-reply"]

\* the handler goes on after `at` entries are answered: it replies when none is
\* left, res.json(Array.isArray(body) ? responses : responses[0]); else it calls
\* handleRpc on the next entry and is suspended on it, or, when that call throws,
\* the handler's own promise rejects and it never replies
GoOn(post) ==
  LET reqs == Requests(post.body)
      rs == post.responses
  IN  IF post.at = Len(reqs)
      THEN [post EXCEPT !.pc = "replied",
                        !.reply = JsonStringify(
                                    IF post.body.t = "array"
                                    THEN Arr([i \in DOMAIN rs |-> AsValue(rs[i])])
                                    ELSE AsValue(rs[1]))]
      ELSE IF Throws(reqs[post.at + 1])
      THEN [post EXCEPT !.pc = "failed"]
      ELSE [post EXCEPT !.pc = "awaiting", !.at = @ + 1]

\* where the handler h stands after a step that leaves it as `post`: suspended,
\* or over. An unhandled rejection ends the process or is only reported.
Settle(h, post) ==
  /\ posts' = [posts EXCEPT ![h] = IF post.pc = "awaiting" THEN post
                                     ELSE DonePost(Len(post.responses))]
  /\ settled' = IF post.pc = "awaiting" THEN settled ELSE post
  /\ IF post.pc = "failed" THEN up' \in BOOLEAN ELSE up' = up

\* app.post('/mcp/command'), up to its first await
PostCommand(h, body) ==
  /\ up
  /\ posts[h].pc = "idle"
  /\ \A g \in PostIds : g < h => posts[g].pc # "idle"
  /\ Len(Requests(body)) <= Room
  /\ Settle(h, GoOn([pc |-> "idle", h |-> h, body |-> body, at |-> 0,
                     responses |-> <<>>, events |-> <<>>, reply |-> NoReply]))
  /\ UNCHANGED <<clients, globalEventSeq, sock, wire, emitted>>

\* a handler that broadcasts the successes only
ResumeQuietOnError(h) ==
  /\ up
  /\ posts[h].pc = "awaiting"
  /\ LET post == posts[h]
         resp == handleRpc_server(Requests(post.body)[post.at]).resp
     IN  IF IsSuccess(resp)
         THEN /\ broadcast("rpc", AsValue(resp))
              /\ Settle(h, GoOn([post EXCEPT !.responses = Append(@, resp),
                                             !.events = Append(@, globalEventSeq)]))
         ELSE /\ Settle(h, GoOn([post EXCEPT !.responses = Append(@, resp)]))
              /\ UNCHANGED <<clients, globalEventSeq, wire, emitted>>
  /\ UNCHANGED sock

\* a handler that keeps the entry it works on in a variable all handlers
\* share: on resuming it answers the entry another suspended handler set last
ResumeCrossTalk(h) ==
  /\ up
  /\ posts[h].pc = "awaiting"
  /\ LET post == posts[h]
         others == {g \in PostIds \ {h} : posts[g].pc = "awaiting"}
         cur == IF others = {} THEN post ELSE posts[CHOOSE g \in others : TRUE]
         resp == handleRpc_server(Requests(cur.body)[cur.at]).resp
     IN  /\ broadcast("rpc", AsValue(resp))
         /\ Settle(h, GoOn([post EXCEPT !.responses = Append(@, resp),
                                        !.events = Append(@, globalEventSeq)]))
  /\ UNCHANGED sock

\* the handler resumes with the response of the entry it awaited: push,
\* broadcast, and go on
Resume(h) ==
  /\ up
  /\ posts[h].pc = "awaiting"
  /\ LET post == posts[h]
         resp == handleRpc_server(Requests(post.body)[post.at]).resp
     IN  /\ broadcast("rpc", AsValue(resp))
         /\ Settle(h, GoOn([post EXCEPT !.responses = Append(@, resp),
                                        !.events = Append(@, globalEventSeq)]))
  /\ UNCHANGED sock

(***************************************************************************)
(* The dispatchers on their own: one value handed to handleRpc             *)
(***************************************************************************)
VARIABLES
  rpcReq,   \* the parsed JSON value handed to handleRpc
  rpcOut    \* who dispatched it, and how the promise settled

rpcVars == <<rpcReq, rpcOut>>

Absent == [t |-> "absent"]
\* the object with the fields of f that are not Absent
MkObj(f) == Obj([k \in {j \in DOMAIN f : f[j] # Absent} |-> f[k]])

RpcVersions == {Absent, Str("2.0"), Str("1.0")}
RpcIds == {Absent, Null, Num(0), Num(1), Str(""), Str("a")}
RpcMethods == {Absent, Str("ping"), Str("listTools"), Str("callTool"), Str("nope")}
RpcNames ==
  {Absent, Null, Str("echo"), Str("sum"), Str("tavily_search"), Str("nosuch"),
   Str("constructor"), Str(""), Num(0), Num(7), Bool(TRUE),
   Arr(<<Str("echo")>>), Arr(<<Str("tavily_search")>>)}
RpcInputs == {Absent, Arr(<<Num(1), Num(2), Num(3)>>), Num(5)}
RpcParams ==
  {Absent, Null, Num(5)}
    \cup {MkObj([name |-> n, input |-> i]) : n \in RpcNames, i \in RpcInputs}
RpcValues ==
  {Null, Num(5), Str("ping"), Bool(TRUE), Arr(<<>>)}
    \cup {MkObj([jsonrpc |-> v, id |-> i, method |-> m, params |-> p]) :
            v \in RpcVersions, i \in RpcIds, m \in RpcMethods, p \in RpcParams}

NotDispatched == [by |-> "none"]

RpcInit == rpcReq \in RpcValues /\ rpcOut = NotDispatched

\* POST /mcp/command hands the value to handleRpc of server.ts
DispatchServer ==
  /\ rpcOut = NotDispatched
  /\ rpcOut' = [by |-> "server", out |-> handleRpc_server(rpcReq)]
  /\ UNCHANGED rpcReq

\* the stdio loop hands the value to handleRpc of tavily.ts
DispatchStdio(io) ==
  /\ rpcOut = NotDispatched
  /\ rpcOut' = [by |-> "stdio", out |-> handleRpc_tavily(rpcReq, io)]
  /\ UNCHANGED rpcReq

\* the stdio loop reads a line that is no JSON instead
DispatchGarbage ==
  /\ rpcOut = NotDispatched
  /\ rpcOut' = [by |-> "parser", out |-> Fulfilled(LineResponse(<<"X">>), NoTool)]
  /\ UNCHANGED rpcReq

(***************************************************************************)
(* The specifications                                                      *)
(***************************************************************************)
vars == <<rpcVars, stdioVars, sseVars>>

RpcIdle == rpcReq = Null /\ rpcOut = NotDispatched
StdioIdle ==
  /\ proc = "load" /\ apiKey = FALSE /\ buffer = <<>>
  /\ stdout = <<>> /\ lines = <<>> /\ fed = 0
  /\ received = <<>> /\ candidates = <<>>

\* server.ts
Init == SseInit /\ StdioIdle /\ RpcIdle
Next ==
  \/ \E c \in ConnIds, marker \in Markers :
       Accept(c, marker) /\ UNCHANGED <<rpcVars, stdioVars>>
  \/ \E c \in ConnIds : OnClose(c) /\ UNCHANGED <<rpcVars, stdioVars>>
  \/ Tick /\ UNCHANGED <<rpcVars, stdioVars>>
  \/ \E h \in PostIds, body \in Bodies :
       PostCommand(h, body) /\ UNCHANGED <<rpcVars, stdioVars>>
  \/ \E h \in PostIds : Resume(h) /\ UNCHANGED <<rpcVars, stdioVars>>
Spec == Init /\ [][Next]_vars

\* server.ts with its timer: the interval callback runs whenever it is due,
\* since no handler holds the event loop (every handler returns or awaits);
\* nothing obliges a tool invocation, a client or a POST to come
SpecTimer ==
  Init /\ [][Next]_vars /\ WF_vars(Tick /\ UNCHANGED <<rpcVars, stdioVars>>)

\* tavily.ts
InitStdio == StdioInit /\ SseInit /\ RpcIdle
NextStdio ==
  \/ Startup /\ UNCHANGED <<rpcVars, sseVars>>
  \/ \E chunk \in Chunks : OnData(chunk) /\ UNCHANGED <<rpcVars, sseVars>>
  \/ \E k \in 1..MaxInput, io \in IoOutcomes :
       Complete(k, io) /\ UNCHANGED <<rpcVars, sseVars>>
SpecStdio == InitStdio /\ [][NextStdio]_vars

\* handleRpc of both files, on every value of RpcValues
InitRpc == RpcInit /\ SseInit /\ StdioIdle
NextRpc ==
  \/ DispatchServer /\ UNCHANGED <<stdioVars, sseVars>>
  \/ \E io \in IoOutcomes : DispatchStdio(io) /\ UNCHANGED <<stdioVars, sseVars>>
  \/ DispatchGarbage /\ UNCHANGED <<stdioVars, sseVars>>
SpecRpc == InitRpc /\ [][NextRpc]_vars
(***************************************************************************)
(* Properties of the dispatchers (SpecRpc)                                 *)
(***************************************************************************)
\* the id the request carries: its own `id` field unless that is null; null
\* for a value that has no such field and for a line that failed to parse
CarriedId ==
  IF /\ rpcOut.by # "parser"
     /\ rpcReq.t = "object"
     /\ "id" \in DOMAIN rpcReq.o
     /\ rpcReq.o["id"] # Null
  THEN rpcReq.o["id"]
  ELSE Null

\* C1: whatever the outcome, a response carries the id of its request, and
\* null when the request has no id, a null id, or did not parse.
C1_ResponseIdIsRequestId ==
  (rpcOut.by # "none" /\ rpcOut.out.settle = "fulfilled")
    => rpcOut.out.resp.id = CarriedId

\* a tool failure answered with the falsy id 0
C1_Witness ==
  /\ rpcOut.by = "server"
  /\ rpcOut.out.settle = "fulfilled"
  /\ rpcOut.out.invoked = "sum"
  /\ IsFailure(rpcOut.out.resp)
  /\ rpcOut.out.resp.id = Num(0)

\* C2: handleRpc never rejects: every value handed to it gets a response.
C2_DispatchNeverRejects ==
  rpcOut.by # "none" => rpcOut.out.settle = "fulfilled"

\* the name a callTool request asks for
RequestedName == GetProp(OrElse(GetProp(rpcReq, "params"), EmptyObj), "name")

IsCallTool ==
  /\ rpcReq.t = "object"
  /\ GetProp(rpcReq, "jsonrpc") = Str("2.0")
  /\ GetProp(rpcReq, "method") = Str("callTool")

\* the names registered with the dispatcher that handled the request
Registered == IF rpcOut.by = "server" THEN Range(toolsKeys) ELSE Range(TOOLSKeys)

\* C10: a callTool whose name is missing, no string, or no registered tool is
\* answered with -32000 "Tool not found: <name>", and no tool runs.
C10_UnknownToolNotFound ==
  (/\ rpcOut.by \in {"server", "stdio"}
   /\ IsCallTool
   /\ (RequestedName.t # "string" \/ RequestedName.s \notin Registered))
    => /\ rpcOut.out.settle = "fulfilled"
       /\ IsFailure(rpcOut.out.resp)
       /\ rpcOut.out.resp.error.code = -32000
       /\ rpcOut.out.resp.error.message = "Tool not found: " \o JsString(RequestedName)
       /\ rpcOut.out.invoked = NoTool
\* the error code of the response the dispatcher produced; 0 stands for a
\* Success, 1 for no response at all
ProducedCode ==
  IF rpcOut.out.settle # "fulfilled" THEN 1
  ELSE IF IsFailure(rpcOut.out.resp) THEN rpcOut.out.resp.error.code ELSE 0

\* the request names a tool registered with the dispatcher that handled it
NamesRegisteredTool == RequestedName.t = "string" /\ RequestedName.s \in Registered

\* the invocation the request asks for fails: on the SSE server sum fails on
\* an input that is no array and nothing else does
ServerInvocationFails ==
  /\ RequestedName = Str("sum")
  /\ GetProp(OrElse(GetProp(rpcReq, "params"), EmptyObj), "input").t # "array"

\* C12: the error code is a function of the request: -32600 when the version
\* tag is not "2.0", whatever the method, and no tool runs; else -32601 when
\* the method is none of ping, listTools, callTool; else, for callTool,
\* -32000 when the tool is not found or its invocation fails and Success
\* otherwise; Success for ping and listTools; and never -32700.
C12_ErrorCodeByRequest ==
  rpcOut.by \in {"server", "stdio"} =>
    /\ ProducedCode # -32700
    /\ IF GetProp(rpcReq, "jsonrpc") # Str("2.0")
       THEN ProducedCode = -32600 /\ rpcOut.out.invoked = NoTool
       ELSE IF GetProp(rpcReq, "method") \notin {Str("ping"), Str("listTools"), Str("callTool")}
       THEN ProducedCode = -32601
       ELSE IF GetProp(rpcReq, "method") # Str("callTool")
       THEN ProducedCode = 0
       ELSE IF ~NamesRegisteredTool
       THEN ProducedCode = -32000
       ELSE IF rpcOut.by = "server"
       THEN ProducedCode = (IF ServerInvocationFails THEN -32000 ELSE 0)
       ELSE /\ ProducedCode \in {0, -32000}
            /\ rpcOut.out.invoked = RequestedName.s
\* the input a callTool request hands to the tool
RequestedInput == GetProp(OrElse(GetProp(rpcReq, "params"), EmptyObj), "input")

RECURSIVE ArraySum(_)
\* the sum of the elements of an array of numbers
ArraySum(a) == IF a = <<>> THEN 0 ELSE Head(a).n + ArraySum(Tail(a))

\* C13: on the stdio transport a callTool for the tool sum with an array of
\* numbers as input is answered with the Success {total: s}, s the sum of the
\* elements.
C13_StdioSumTotals ==
  (/\ rpcOut.by = "stdio"
   /\ IsCallTool
   /\ RequestedName = Str("sum")
   /\ RequestedInput.t = "array"
   /\ \A i \in DOMAIN RequestedInput.a : RequestedInput.a[i].t = "number")
    => /\ rpcOut.out.settle = "fulfilled"
       /\ IsSuccess(rpcOut.out.resp)
       /\ rpcOut.out.resp.result = Obj([total |-> Num(ArraySum(RequestedInput.a))])
(***************************************************************************)
(* Properties of the SSE server (Spec)                                     *)
(***************************************************************************)
\* the last element of a non-empty sequence
Last(q) == q[Len(q)]

\* C3: the sequence is incremented once per emitted event, whoever receives
\* it: the k-th event carries the id k, the ids on every wire increase
\* strictly, and an id never stands for two different events.
C3_OneIncrementPerEvent ==
  /\ globalEventSeq = Len(emitted) + 1
  /\ \A k \in DOMAIN emitted : emitted[k].id = k
  /\ \A c \in ConnIds :
       /\ \A i, j \in DOMAIN wire[c] : i < j => wire[c][i].id < wire[c][j].id
       /\ \A i \in DOMAIN wire[c] :
            /\ wire[c][i].id \in DOMAIN emitted
            /\ c \in emitted[wire[c][i].id].to
            /\ wire[c][i].event = emitted[wire[c][i].id].event
            /\ wire[c][i].data = emitted[wire[c][i].id].data

\* a tick nobody received, then a welcome, then an rpc event somebody received
C3_Witness ==
  /\ Len(emitted) = 3
  /\ emitted[1].event = "tick" /\ emitted[1].to = {}
  /\ emitted[2].event = "welcome"
  /\ emitted[3].event = "rpc" /\ emitted[3].to # {}

\* C4: once the close handler has removed a connection, nothing more is
\* written to it.
C4_NoWriteAfterClose ==
  [][\A c \in ConnIds : sock[c] = "closed" => wire'[c] = wire[c]]_vars

\* a connection received the first rpc event of a batch of two and was closed
\* before the second, which the batch has broadcast since
C4_Witness ==
  \E c \in ConnIds :
    /\ sock[c] = "closed"
    /\ c \notin DOMAIN clients
    /\ settled.pc = "replied"
    /\ Len(settled.events) = 2
    /\ Last(wire[c]).id = settled.events[1]

\* the reply the claim expects for a body
ExpectedReply(body) ==
  IF body.t = "array"
  THEN Arr([i \in DOMAIN body.a |-> JsonStringify(AsValue(handleRpc_server(body.a[i]).resp))])
  ELSE JsonStringify(AsValue(handleRpc_server(body).resp))

\* C5: a handler that is over has replied: to an array of K entries with the
\* K responses in order, to a single object with its single response; and a
\* suspended handler has begun exactly one entry more than it has answered.
C5_BatchReplyInOrder ==
  /\ \A h \in PostIds :
       posts[h].pc = "awaiting" => posts[h].at = Len(posts[h].responses) + 1
  /\ settled.pc # "none" =>
       /\ settled.pc = "replied"
       /\ settled.reply = ExpectedReply(settled.body)

\* the handler record p has broadcast each of its responses, once, in order
BroadcastEach(p) ==
  /\ Len(p.events) = Len(p.responses)
  /\ \A i \in DOMAIN p.events :
       /\ p.events[i] \in DOMAIN emitted
       /\ emitted[p.events[i]].event = "rpc"
       /\ emitted[p.events[i]].data = JsonStringify(AsValue(p.responses[i]))
  /\ \A i, j \in DOMAIN p.events : i < j => p.events[i] < p.events[j]

\* the number of responses the handlers have computed so far
Computed ==
  SumOver([h \in PostIds |->
            CASE posts[h].pc = "awaiting" -> Len(posts[h].responses)
              [] posts[h].pc = "done" -> posts[h].n
              [] OTHER -> 0],
          PostIds)

\* C6: every response a handler computes is broadcast once as an rpc event
\* before the reply goes out, so a reply holds exactly the payloads of the
\* rpc events of its request, in order, under increasing ids.
C6_ReplyMirrorsRpcEvents ==
  /\ \A h \in PostIds : posts[h].pc = "awaiting" => BroadcastEach(posts[h])
  /\ settled.pc # "none" => BroadcastEach(settled)
  /\ Cardinality({k \in DOMAIN emitted : emitted[k].event = "rpc"}) = Computed
  /\ settled.pc = "replied" =>
       settled.reply =
         IF settled.body.t = "array"
         THEN Arr([i \in DOMAIN settled.events |-> emitted[settled.events[i]].data])
         ELSE emitted[settled.events[1]].data

\* a batch of two has been answered, with a success and a failure, while a
\* client listened
C6_Witness ==
  /\ settled.pc = "replied"
  /\ settled.body = Arr(<<PingA, UnknownB>>)
  /\ \E c \in ConnIds : Len(wire[c]) = 3
\* the welcome frame of the connection c when the sequence stands at seq
WelcomeFrame(c, seq) ==
  Frame(seq, "welcome", Obj([clientId |-> Num(c), serverTime |-> IsoNow]))

\* C11: nothing is written to a connection before it is accepted; accepting it
\* writes the welcome event with the connection's own id as its first frame,
\* under the next sequence number, to that connection and no other, and
\* advances the sequence by one; no later frame of the connection is a welcome,
\* whatever ticks, rpc events and other accepts come in between.
C11_WelcomeFirstAndPrivate ==
  /\ [](\A c \in ConnIds :
          /\ sock[c] = "none" => wire[c] = <<>>
          /\ sock[c] # "none" =>
               /\ wire[c] # <<>>
               /\ wire[c][1] = WelcomeFrame(c, wire[c][1].id)
               /\ emitted[wire[c][1].id].to = {c}
               /\ \A d \in ConnIds \ {c} :
                    \A i \in DOMAIN wire[d] : wire[d][i].id # wire[c][1].id
               /\ \A i \in 2..Len(wire[c]) : wire[c][i].event # "welcome")
  /\ [][\A c \in ConnIds :
          (sock[c] = "none" /\ sock'[c] # "none") =>
            /\ wire'[c] = <<WelcomeFrame(c, globalEventSeq)>>
            /\ globalEventSeq' = globalEventSeq + 1
            /\ \A d \in ConnIds \ {c} : wire'[d] = wire[d]]_vars

\* a second connection is accepted after the first has received a tick
C11_Witness ==
  /\ sock[1] = "open" /\ sock[2] = "open"
  /\ Len(wire[1]) = 2 /\ wire[1][2].event = "tick"
  /\ wire[2] = <<WelcomeFrame(2, 3)>>
\* the step is a call of broadcast: an event that is no welcome is emitted
BroadcastStep ==
  /\ Len(emitted') = Len(emitted) + 1
  /\ emitted'[Len(emitted')].event # "welcome"

\* the step writes one frame, the same for all, to every connection registered
\* before it and nothing to the others, and the sequence advances by one
OneFrameToEachRegistered ==
  /\ globalEventSeq' = globalEventSeq + 1
  /\ DOMAIN clients' = DOMAIN clients
  /\ \E id \in {globalEventSeq, globalEventSeq'} :
       LET e == emitted'[Len(emitted')]
       IN  \A c \in ConnIds :
             wire'[c] = IF c \in DOMAIN clients
                        THEN Append(wire[c], Frame(id, e.event, e.data))
                        ELSE wire[c]

\* C16: a call of broadcast increments the sequence once, writes one frame
\* under one id to every registered connection and to no other, and leaves
\* the lastEventId of every registered connection at the new value of the
\* sequence.
C16_LastEventIdIsNewSequence ==
  [][BroadcastStep =>
       /\ OneFrameToEachRegistered
       /\ \A c \in DOMAIN clients' : clients'[c].lastEventId = Num(globalEventSeq')]_vars

\* C16, amended: the frames carry the value the sequence had before the
\* increment, and the lastEventId of every registered connection is that id,
\* one less than the new value of the sequence.
C16_LastEventIdIsFrameId ==
  [][BroadcastStep =>
       /\ OneFrameToEachRegistered
       /\ \A c \in DOMAIN clients :
            /\ Last(wire'[c]).id = globalEventSeq
            /\ clients'[c].lastEventId = Num(globalEventSeq)
            /\ clients'[c].lastEventId = Num(globalEventSeq' - 1)]_vars

\* a tick has gone to two registered connections
C16_Witness ==
  /\ DOMAIN clients = {1, 2}
  /\ Last(emitted).event = "tick" /\ Last(emitted).to = {1, 2}
  /\ \A c \in {1, 2} :
       /\ Last(wire[c]).id = Last(emitted).id
       /\ clients[c].lastEventId = Num(globalEventSeq - 1)
TickStep ==
  /\ Len(emitted') = Len(emitted) + 1
  /\ emitted'[Len(emitted')].event = "tick"

OwnEntriesInOrder(p) ==
  /\ Len(p.responses) <= Len(Requests(p.body))
  /\ Len(p.events) = Len(p.responses)
  /\ \A i \in DOMAIN p.responses :
       /\ p.responses[i] = handleRpc_server(Requests(p.body)[i]).resp
       /\ emitted[p.events[i]].event = "rpc"
       /\ emitted[p.events[i]].data = JsonStringify(AsValue(p.responses[i]))
  /\ \A i, j \in DOMAIN p.events : i < j => p.events[i] < p.events[j]

\* the sequence numbers of the rpc events of the handler record p
EventsOf(p) == {p.events[i] : i \in DOMAIN p.events}

IsReadiness(r) ==
  /\ IsSuccess(r)
  /\ r.id = Null
  /\ r.result = Obj([ready |-> Bool(TRUE), tools |-> Arr(<<Str("tavily_search")>>)])

IsParseError(r) == IsFailure(r) /\ r.error.code = -32700 /\ r.id = Null

\* C7: when every line cut off so far holds a JSON value and no tool
\* invocation is outstanding, stdout holds the readiness line and exactly one
\* line per input line: each line has its own answer.
C7_OneAnswerPerJsonLine ==
  (/\ proc # "load"
   /\ \A k \in DOMAIN lines : JsonParse(lines[k].text).ok
   /\ \A k \in DOMAIN lines : lines[k].state # "pending")
    => /\ Len(stdout) = Len(lines) + 1
       /\ \A k \in DOMAIN lines : lines[k].out \in 2..Len(stdout)
       /\ \A j, k \in DOMAIN lines : j # k => lines[j].out # lines[k].out

\* C8: a line that is no JSON has exactly one answer, the -32700 failure with
\* id null, as soon as the handler has cut it off; and every other line is
\* still answered, or is waiting for its tool only.
C8_ParseErrorAnsweredOthersKept ==
  \A k \in DOMAIN lines :
    ~JsonParse(lines[k].text).ok =>
      /\ lines[k].out \in DOMAIN stdout
      /\ IsParseError(stdout[lines[k].out])
      /\ Cardinality({i \in DOMAIN stdout : IsParseError(stdout[i])})
           = Cardinality({j \in DOMAIN lines : ~JsonParse(lines[j].text).ok})
      /\ \A j \in DOMAIN lines \ {k} :
           \/ lines[j].state = "pending"
           \/ lines[j].out \in DOMAIN stdout

\* C9: the readiness line is written once, and first: nothing is on stdout
\* before the script has run, and afterwards the first line, and only the
\* first, is the announcement; every answer to a line comes after it.
C9_ReadinessFirstAndOnce ==
  /\ proc = "load" => stdout = <<>>
  /\ proc # "load" =>
       /\ stdout # <<>>
       /\ IsReadiness(stdout[1])
       /\ \A i \in 2..Len(stdout) : ~IsReadiness(stdout[i])
  /\ \A k \in DOMAIN lines : lines[k].out # 1

\* a parse error and a request have been answered, after the announcement
C9_Witness ==
  /\ Len(stdout) = 3
  /\ IsParseError(stdout[2])
  /\ IsSuccess(stdout[3])

\* C14: a line whose tool invocation has not completed holds back no other
\* line: the handler has cut off every line the input has completed, and every
\* line after the stalled one has its answer on stdout, unless it waits for a
\* tool invocation of its own.
C14_StalledToolBlocksOnlyItself ==
  /\ IndexOf(buffer, NL) = 0
  /\ \A k \in DOMAIN lines :
       lines[k].state = "pending" =>
         \A j \in DOMAIN lines :
           j > k => (lines[j].state = "pending" \/ lines[j].out \in DOMAIN stdout)

\* the places of the newlines in the text received so far
NewlinePlaces == SelectSeq([i \in DOMAIN received |-> i], LAMBDA i : received[i] = NL)

\* the text between the (i-1)-th and the i-th newline
Segment(i) ==
  SubSeq(received, IF i = 1 THEN 1 ELSE NewlinePlaces[i - 1] + 1, NewlinePlaces[i] - 1)

\* the text after the last newline
AfterLastNewline ==
  SubSeq(received,
         IF NewlinePlaces = <<>> THEN 1 ELSE NewlinePlaces[Len(NewlinePlaces)] + 1,
         Len(received))

\* C15: however the input is cut into chunks, the candidate lines are the
\* segments between the newlines of the whole input, in order, each once (as
\* the loop cuts them when the input comes as one chunk), and after every chunk
\* the buffer is the text after the last newline.
C15_FramingIgnoresChunking ==
  /\ candidates = [i \in DOMAIN NewlinePlaces |-> Trim(Segment(i))]
  /\ candidates = SplitLines(received, <<>>).lines
  /\ buffer = AfterLastNewline
  /\ Len(lines) = Len(Handled(candidates))
  /\ \A i \in DOMAIN lines : lines[i].text = Handled(candidates)[i]

\* more text than one chunk holds has come in: a line in two halves, its
\* newline, and the beginning of the next line
C15_Witness ==
  /\ Len(received) > MaxChunk
  /\ candidates = << <<"P1", "P2">> >>
  /\ buffer = <<"T">>

\* the newline-terminated segments of the text received that are not empty
\* after trimming, in order
TerminatedNonEmpty ==
  SelectSeq([i \in DOMAIN NewlinePlaces |-> Trim(Segment(i))], LAMBDA s : s # <<>>)

\* C20: only a segment that a newline terminates and that is not empty after
\* trimming is dispatched; every output line after the readiness line answers
\* such a segment, so the text after the last newline and the empty lines
\* produce no output.
C20_OnlyTerminatedNonEmptyLinesAnswered ==
  /\ Len(lines) = Len(TerminatedNonEmpty)
  /\ \A k \in DOMAIN lines : lines[k].text = TerminatedNonEmpty[k]
  /\ Len(stdout) <= 1 + Len(TerminatedNonEmpty)
  /\ \A j \in 2..Len(stdout) : \E k \in DOMAIN lines : lines[k].out = j
  /\ (NewlinePlaces = <<>> /\ proc # "load") => stdout = <<ReadyLine>>

\* a blank line and then the whole text of a ping request without its newline
\* have come in: nothing but the readiness line is on stdout
C20_Witness ==
  /\ received = <<SP, NL, "P1", "P2">>
  /\ buffer = <<"P1", "P2">>
  /\ stdout = <<ReadyLine>>
====
